---------------------------- MODULE Spec2Model ----------------------------
(***************************************************************************)
(* Model of the Indian-film scraper: the semaphore-bounded summary fetch   *)
(* (wikimedia_api.gather_summaries), the retrying request helpers          *)
(* (wikimedia_api._safe_request, run_sparql) and the checkpointed pipeline *)
(* (scrape_wiki.main and its five stages).                                 *)
(*                                                                         *)
(* The specifications share the variables; each leaves the other parts    *)
(* idle:                                                                   *)
(*   SpecGather  one call of gather_summaries                              *)
(*   SpecGatherFair  the same, with the event loop's fairness              *)
(*   SpecRetry   one call of _safe_request or run_sparql                   *)
(*   Spec        successive invocations of main over one checkpoint store  *)
(*   SpecData    one call of a data function (data_cleaning, assemble_csv, *)
(*               query_wikidata_batch, resolve_qids, chunked) on one input *)
(*   SpecMembers one call of fetch_category_members                        *)
(*                                                                         *)
(* A nullable Python value is a sequence of length at most one: None is    *)
(* <<>> and a value v is <<v>>.                                            *)
(***************************************************************************)
EXTENDS Integers, Sequences, FiniteSets, TLC

VARIABLES
    \* ---- gather_summaries ----
    gpc,        \* position of gather_summaries: off, create, collect, returned, raised
    ntitles,    \* len(titles); the titles are 1..ntitles, in input order
    resp,       \* the response the summary endpoint gives for each title
    tstate,     \* state of each worker task
    sem,        \* asyncio.Semaphore._value: permits free
    waiters,    \* asyncio.Semaphore._waiters: tasks blocked in acquire, FIFO
    tresult,    \* result of each finished worker: the (title, summary) it returns
    completed,  \* finished tasks in completion order, not yet handed out by as_completed
    out,        \* the mapping being built, a function over the titles collected so far
    order,      \* titles in the order their results were collected
    \* ---- _safe_request / run_sparql ----
    rpc,        \* position of the helper: off, try, sleep, returned, raised
    rfun,       \* which helper runs: "safe_request" or "run_sparql"
    retries,    \* its retries argument
    attempt,    \* the loop variable of range(1, retries + 1)
    rlog,       \* outcome of each request issued so far, in order
    slept,      \* argument of each time.sleep so far, in half seconds
    rret,       \* value returned (nullable) / exception raised
    \* ---- main and the stages ----
    files,      \* the checkpoint directory: key -> [st, data]
    runs,       \* invocations of main started so far
    steps,      \* main's steps argument
    specific_group, \* main's specific_group argument (0: none)
    mpc,        \* position of main
    groupList,  \* the groups main's loop iterates over (keys of films_map)
    gi,         \* index in groupList of the group being processed
    local,      \* main's locals subcats_map, films_map, qid_map, meta_map, summaries
    printed,    \* messages printed by the current invocation
    assembled,  \* groups for which assemble_csv ran in the current invocation
    stage,      \* the stage function executing ("none": main's own code)
    spc,        \* position inside the stage function
    sarg,       \* the stage's input argument
    acc,        \* the result the stage has built so far
    widx,       \* number of the stage's network calls completed
    netCalls,   \* network calls issued by the current stage call
    ret,        \* value the stage returns
    startFile,  \* the stage's checkpoint file as it was when the call started
    firstRet,   \* per key: the value returned by the call that wrote the checkpoint
    written,    \* per key: the content put in the checkpoint when it was written
    \* ---- one call of a data function ----
    dpc,        \* position of the call: off, call, done, raised
    dfun,       \* the function called
    dinput,     \* its argument
    doutput,    \* what it returned
    \* ---- fetch_category_members ----
    cpc,        \* position: off, request, returned, raised
    catpages,   \* the result pages the API holds for the category
    cont_token, \* the cmcontinue parameter of the next request
    members,    \* the list being built
    requests,   \* the cmcontinue parameter of each request issued so far
    cmret       \* the list returned (nullable)

gvars == <<gpc, ntitles, resp, tstate, sem, waiters, tresult, completed, out, order>>
rvars == <<rpc, rfun, retries, attempt, rlog, slept, rret>>
pvars == <<files, runs, steps, specific_group, mpc, groupList, gi, local, printed,
           assembled, stage, spc, sarg, acc, widx, netCalls, ret, startFile,
           firstRet, written>>
dvars == <<dpc, dfun, dinput, doutput>>
cvars == <<cpc, catpages, cont_token, members, requests, cmret>>
vars == <<gvars, rvars, pvars, dvars, cvars>>

None == <<>>
Some(v) == <<v>>

(***************************************************************************)
(* Bounds of the model.                                                    *)
(***************************************************************************)
\* config.MAX_CONCURRENCY is 50; the model runs the same code with a small pool
MAX_CONCURRENCY == 2
\* most titles handed to one gather_summaries call
NTitles == 3

GOff ==
    /\ gpc = "off" /\ ntitles = 0 /\ resp = <<>> /\ tstate = <<>> /\ sem = 0
    /\ waiters = <<>> /\ tresult = <<>> /\ completed = <<>> /\ out = <<>>
    /\ order = <<>>

(***************************************************************************)
(* gather_summaries                                                        *)
(***************************************************************************)
\* What the summary endpoint can answer for one title: 200 with an extract,
\* 200 without the "extract" field, another status, or a transport exception.
Responses == {"ok", "noextract", "non200", "exc"}

\* the text the endpoint holds for title t
ExtractOf(t) == <<"extract", t>>

\* _fetch_summary's return value for a response that does not raise
FetchSummary(t, r) ==
    IF r = "non200" THEN None
    ELSE IF r = "ok" THEN Some(ExtractOf(t)) ELSE None

\* whether session.get / resp.json raises for this response
FetchRaises(r) == r = "exc"

CanAcquireAlways(s, w) == TRUE
\* Semaphore.acquire's fast path: not self.locked()
CanAcquire(s, w) == s > 0 /\ w = <<>>

CollectKeyByPosition(title, k) == k
\* the key under which the collecting loop stores a result
CollectKey(title, k) == title

Titles == 1..ntitles
Holding == {t \in Titles : tstate[t] \in {"granted", "inflight"}}
InFlight == {t \in Titles : tstate[t] = "inflight"}

GInit ==
    /\ gpc = "create"
    /\ ntitles \in 0..NTitles
    /\ resp \in [1..ntitles -> Responses]
    /\ tstate = [t \in 1..ntitles |-> "none"]
    /\ sem = MAX_CONCURRENCY
    /\ waiters = <<>>
    /\ tresult = [t \in 1..ntitles |-> None]
    /\ completed = <<>>
    /\ out = <<>>
    /\ order = <<>>

\* tasks = [asyncio.create_task(worker(t)) for t in titles]: no task runs
\* before the comprehension is over and gather_summaries first awaits
CreateTask ==
    /\ gpc = "create"
    /\ LET created == {t \in Titles : tstate[t] # "none"}
           nxt == Cardinality(created) + 1
       IN  IF nxt > ntitles
           THEN /\ gpc' = "collect"
                /\ UNCHANGED tstate
           ELSE /\ tstate' = [tstate EXCEPT ![nxt] = "created"]
                /\ gpc' = gpc
    /\ UNCHANGED <<ntitles, resp, sem, waiters, tresult, completed, out, order>>

\* worker's first step: async with sem, then session.get is issued; or block
TaskStart(t) ==
    /\ gpc \in {"collect", "raised"}
    /\ tstate[t] = "created"
    /\ IF CanAcquire(sem, waiters)
       THEN /\ sem' = sem - 1
            /\ tstate' = [tstate EXCEPT ![t] = "inflight"]
            /\ UNCHANGED waiters
       ELSE /\ waiters' = Append(waiters, t)
            /\ tstate' = [tstate EXCEPT ![t] = "waiting"]
            /\ UNCHANGED sem
    /\ UNCHANGED <<gpc, ntitles, resp, tresult, completed, out, order>>

ReleaseSemNotOnError(ts, t, st) ==
    LET blocked == SelectSeq(waiters, LAMBDA w : ts[w] = "waiting")
    IN  IF st = "failed" \/ blocked = <<>>
        THEN [s |-> IF st = "failed" THEN sem ELSE sem + 1, ts |-> [ts EXCEPT ![t] = st]]
        ELSE [s |-> sem, ts |-> [ts EXCEPT ![t] = st, ![Head(blocked)] = "granted"]]
\* Semaphore.release: the value goes up and _wake_up_next hands the permit to
\* the first waiter, which stays queued until it resumes
ReleaseSem(ts, t, st) ==
    LET blocked == SelectSeq(waiters, LAMBDA w : ts[w] = "waiting")
    IN  IF blocked = <<>>
        THEN [s |-> sem + 1, ts |-> [ts EXCEPT ![t] = st]]
        ELSE [s |-> sem, ts |-> [ts EXCEPT ![t] = st, ![Head(blocked)] = "granted"]]

\* a woken waiter resumes: leaves the queue and issues its request
TaskResume(t) ==
    /\ gpc \in {"collect", "raised"}
    /\ tstate[t] = "granted"
    /\ waiters' = SelectSeq(waiters, LAMBDA w : w # t)
    /\ tstate' = [tstate EXCEPT ![t] = "inflight"]
    /\ UNCHANGED <<gpc, ntitles, resp, sem, tresult, completed, out, order>>

\* the response (or the transport error) arrives; the permit is released on
\* the way out of async with sem, and the task finishes
TaskComplete(t) ==
    /\ gpc \in {"collect", "raised"}
    /\ tstate[t] = "inflight"
    /\ LET st == IF FetchRaises(resp[t]) THEN "failed" ELSE "done"
           rel == ReleaseSem(tstate, t, st)
       IN  /\ sem' = rel.s
           /\ tstate' = rel.ts
    /\ tresult' = [tresult EXCEPT ![t] =
                      IF FetchRaises(resp[t]) THEN None ELSE FetchSummary(t, resp[t])]
    /\ completed' = Append(completed, t)
    /\ UNCHANGED <<gpc, ntitles, resp, waiters, out, order>>

\* for fut in as_completed(tasks): title, summary = await fut; out[title] = summary
\* A task that ended with an exception makes await fut raise in gather_summaries.
Collect ==
    /\ gpc = "collect"
    /\ completed # <<>>
    /\ LET t == Head(completed)
           k == Len(order) + 1
           key == CollectKey(t, k)
       IN  IF tstate[t] = "failed"
           THEN /\ gpc' = "raised"
                /\ UNCHANGED <<out, order>>
           ELSE /\ out' = [x \in (DOMAIN out) \cup {key} |->
                              IF x = key THEN tresult[t] ELSE out[x]]
                /\ order' = Append(order, t)
                /\ gpc' = gpc
    /\ completed' = Tail(completed)
    /\ UNCHANGED <<ntitles, resp, tstate, sem, waiters, tresult>>

\* the loop over as_completed is exhausted: return out
GatherReturn ==
    /\ gpc = "collect"
    /\ Len(order) = ntitles
    /\ gpc' = "returned"
    /\ UNCHANGED <<ntitles, resp, tstate, sem, waiters, tresult, completed, out, order>>

\* after gather_summaries raised, asyncio.run cancels the tasks still pending
CancelTask(t) ==
    /\ gpc = "raised"
    /\ tstate[t] \in {"created", "waiting", "granted", "inflight"}
    /\ IF tstate[t] \in {"granted", "inflight"}
       THEN LET rel == ReleaseSem(tstate, t, "cancelled")
            IN  /\ sem' = rel.s
                /\ tstate' = rel.ts
       ELSE /\ tstate' = [tstate EXCEPT ![t] = "cancelled"]
            /\ UNCHANGED sem
    /\ waiters' = SelectSeq(waiters, LAMBDA w : w # t)
    /\ UNCHANGED <<gpc, ntitles, resp, tresult, completed, out, order>>

GIdle == UNCHANGED <<rvars, pvars, dvars, cvars>>

GNext ==
    \/ CreateTask /\ GIdle
    \/ \E t \in Titles : TaskStart(t) /\ GIdle
    \/ \E t \in Titles : TaskResume(t) /\ GIdle
    \/ \E t \in Titles : TaskComplete(t) /\ GIdle
    \/ Collect /\ GIdle
    \/ GatherReturn /\ GIdle
    \/ \E t \in Titles : CancelTask(t) /\ GIdle

(***************************************************************************)
(* _safe_request and run_sparql                                            *)
(***************************************************************************)
\* largest retries argument tried
MaxRetries == 3
\* the default of the retries parameter of both helpers
DefaultRetries == 3

ROff ==
    /\ rpc = "off" /\ rfun = "none" /\ retries = 0 /\ attempt = 0
    /\ rlog = <<>> /\ slept = <<>> /\ rret = None

Helpers == {"safe_request", "run_sparql"}

\* How one request can end.  _safe_request: a response that parses, a
\* requests.RequestException from the transport, the HTTPError of
\* raise_for_status on a 4xx/5xx status, the ValueError of resp.json().
\* run_sparql: the bindings, or any Exception.
Outcomes(f) ==
    IF f = "safe_request" THEN {"ok", "conn", "http", "json"} ELSE {"ok", "exc"}

\* the backoff default of each helper, in half seconds (1.5 s and 2.0 s)
Backoff(f) == IF f = "safe_request" THEN 3 ELSE 4

\* a loop whose body runs once before the bound is looked at
AttemptAtLeastOnce(a, r) == a = 1 \/ a <= r
\* for attempt in range(1, retries + 1): whether attempt a is in the range
AttemptInRange(a, r) == a <= r

LastAttemptOffByOne(a, r) == a = r - 1
\* if attempt == retries: raise
LastAttempt(a, r) == a = r

SleepTimeConstant(f, a) == Backoff(f)
\* time.sleep(backoff * attempt)
SleepTime(f, a) == Backoff(f) * a

RInit ==
    /\ rpc = "try"
    /\ rfun \in Helpers
    /\ retries \in (0 - 1)..MaxRetries
    /\ attempt = 1
    /\ rlog = <<>>
    /\ slept = <<>>
    /\ rret = None

\* one pass of the loop body: issue the request; return on success, raise on
\* the last attempt, otherwise go on to sleep
Request ==
    /\ rpc = "try"
    /\ AttemptInRange(attempt, retries)
    /\ \E o \in Outcomes(rfun) :
        /\ rlog' = Append(rlog, o)
        /\ IF o = "ok"
           THEN /\ rpc' = "returned"
                /\ rret' = Some(<<"data", attempt>>)
           ELSE IF LastAttempt(attempt, retries)
           THEN /\ rpc' = "raised"
                /\ rret' = Some(<<o, attempt>>)
           ELSE /\ rpc' = "sleep"
                /\ rret' = rret
    /\ UNCHANGED <<rfun, retries, attempt, slept>>

\* time.sleep(backoff * attempt), then the next iteration
Sleep ==
    /\ rpc = "sleep"
    /\ slept' = Append(slept, SleepTime(rfun, attempt))
    /\ attempt' = attempt + 1
    /\ rpc' = "try"
    /\ UNCHANGED <<rfun, retries, rlog, rret>>

\* range(1, retries + 1) is exhausted: the function ends without a return
\* statement, which returns None
FallThrough ==
    /\ rpc = "try"
    /\ ~AttemptInRange(attempt, retries)
    /\ rpc' = "returned"
    /\ rret' = None
    /\ UNCHANGED <<rfun, retries, attempt, rlog, slept>>

RIdle == UNCHANGED <<gvars, pvars, dvars, cvars>>

RNext ==
    \/ Request /\ RIdle
    \/ Sleep /\ RIdle
    \/ FallThrough /\ RIdle

(***************************************************************************)
(* The checkpointed pipeline: data                                         *)
(***************************************************************************)
\* number of category groups (config.TARGET_GROUPS has six; the model runs
\* the same loop over fewer)
NGroups == 2
\* invocations of main over the same checkpoint directory
MaxRuns == 2
\* resolve_qids: chunked(sorted(titles), 50)
QidBatchSize == 50
\* fetch_metadata: chunked(list(qid_map.values()), 200)
MetaBatchSize == 200

\* config.TARGET_GROUPS; a group is named by its number
TARGET_GROUPS == [i \in 1..NGroups |-> i]
Groups == 1..NGroups

GlobalStages == {"subcats", "films"}
GroupStages == {"qids", "metadata", "summaries"}
StageNames == GlobalStages \cup GroupStages
\* the choices of --steps other than "all" ("clean" selects no step of main)
StepNames == StageNames \cup {"csv", "clean"}
\* the values of --steps (nargs="+", at least one of the eight choices; main
\* only asks what the list holds, so a list is the set of its elements)
StepChoices == (SUBSET ({"all"} \cup StepNames)) \ {{}}

\* CHECKPOINT_DIR / "subcats.json", "films.json", f"qids_{slugify(group)}.json", ...
Key(s, g) == IF s \in GlobalStages THEN <<s, 0>> ELSE <<s, g>>
Keys == {<<s, 0>> : s \in GlobalStages} \cup (GroupStages \X Groups)

\* a file of the checkpoint directory: absent, opened for writing and not yet
\* fully written, or complete
Absent == [st |-> "absent", data |-> <<>>]
Partial == [st |-> "partial", data |-> <<>>]
Complete(d) == [st |-> "complete", data |-> d]

RECURSIVE SortedSeq(_)
\* sorted(S) for a set of integers
SortedSeq(S) ==
    IF S = {} THEN <<>>
    ELSE LET m == CHOOSE x \in S : \A y \in S : x <= y
         IN  <<m>> \o SortedSeq(S \ {m})

Range(q) == {q[i] : i \in DOMAIN q}

\* list(v) for a set v: its elements in the set's iteration order, which for
\* a set of str is any order (it follows the process's string hashing)
ListOf(S) == {q \in [1..Cardinality(S) -> S] : Range(q) = S}

Extend(f, k, v) == [x \in (DOMAIN f) \cup {k} |-> IF x = k THEN v ELSE f[x]]

\* one batch holding everything, whatever the size
chunked_in_one(it, size) == IF it = <<>> THEN <<>> ELSE <<it>>

RECURSIVE chunked(_, _)
\* utils.chunked: it[i : i + size] for i in range(0, len(it), size)
chunked(it, size) ==
    IF it = <<>> THEN <<>>
    ELSE IF Len(it) <= size THEN <<it>>
    ELSE <<SubSeq(it, 1, size)>> \o chunked(SubSeq(it, size + 1, Len(it)), size)

\* utils.strip_cat_prefix: a title carrying the prefix is <<"Category:", name>>
strip_cat_prefix(title) == IF title[1] = "Category:" THEN title[2] ELSE title

(* The sources the stages read.  Group g's category holds one page, 10g+1;  *)
(* an odd group has one sub-category, holding one page, 10g+3, which has no *)
(* Wikidata item.  The item of an odd group's page has every property, the  *)
(* item of an even group's page has none (one result row, only ?film bound).*)
(* A category name is <<"grp", g>> or <<"sub", g>>.                         *)
CatOfGroup(g) == <<"grp", g>>
SubcatsOf(g) == IF g % 2 = 1 THEN << <<"Category:", <<"sub", g>>>> >> ELSE <<>>
PagesOf(cat) ==
    IF cat[1] = "grp" THEN {10 * cat[2] + 1} ELSE {10 * cat[2] + 3}
QidOf(t) == IF t % 10 = 3 THEN None ELSE Some(100 + t)
MetaOf(q) ==
    IF (q \div 10) % 2 = 1
    THEN [imdb_id |-> Some("tt123"), year |-> Some(2005), people |-> Some("X; Y")]
    ELSE [imdb_id |-> None, year |-> None, people |-> None]
SummaryText == "A Hindi-language drama."

\* what json.dump can put in each stage's file for the result v
\* (films: sets become lists; metadata: values that are not str, int, float,
\* bool or None become str(v), and there are none; summaries: None becomes "")
Dump(s, v) ==
    IF s = "films"
    THEN {d \in [DOMAIN v -> UNION {ListOf(v[g]) : g \in DOMAIN v}] :
             \A g \in DOMAIN v : d[g] \in ListOf(v[g])}
    ELSE IF s = "summaries"
    THEN {[t \in DOMAIN v |-> IF v[t] = None THEN Some("") ELSE v[t]]}
    ELSE {v}

\* json.load of a stage's checkpoint (films: lists back to sets)
Load(s, d) ==
    IF s = "films" THEN [g \in DOMAIN d |-> Range(d[g])] ELSE d

CheckpointNeverExists(f) == FALSE
\* checkpoint_file.exists()
CheckpointExists(f) == f.st # "absent"

OpenTruncating(f) == Partial
\* open(checkpoint_file, 'r') leaves the file as it is
OpenForRead(f) == f

\* the network calls a stage makes for its argument, in order
\* (summaries: the one gather_summaries call)
WorkUnits(s, arg) ==
    IF s = "subcats" THEN [i \in 1..Len(TARGET_GROUPS) |-> TARGET_GROUPS[i]]
    ELSE IF s = "films"
    THEN LET gs == SortedSeq(DOMAIN arg)
             RECURSIVE calls(_)
             calls(i) ==
                 IF i > Len(gs) THEN <<>>
                 ELSE <<[g |-> gs[i], cat |-> CatOfGroup(gs[i])]>>
                      \o [j \in 1..Len(arg[gs[i]]) |->
                             [g |-> gs[i], cat |-> strip_cat_prefix(arg[gs[i]][j])]]
                      \o calls(i + 1)
         IN  calls(1)
    ELSE IF s = "qids" THEN chunked(SortedSeq(arg), QidBatchSize)
    ELSE IF s = "metadata"
    THEN chunked([i \in 1..Cardinality(DOMAIN arg) |-> arg[SortedSeq(DOMAIN arg)[i]]],
                 MetaBatchSize)
    ELSE <<SortedSeq(DOMAIN arg)>>

\* the stage's accumulator before its first call
\* (films: a defaultdict(set), which gets a key for every group visited)
EmptyAcc(s, arg) == <<>>

\* the accumulator after work unit u succeeded; for summaries m is the mapping
\* gather_summaries returned
AfterUnit(s, a, u, m) ==
    IF s = "subcats" THEN Extend(a, u, SubcatsOf(u))
    ELSE IF s = "films"
    THEN Extend(a, u.g, (IF u.g \in DOMAIN a THEN a[u.g] ELSE {}) \cup PagesOf(u.cat))
    ELSE IF s = "qids"
    THEN LET found == {t \in Range(u) : QidOf(t) # None}
         IN  [t \in (DOMAIN a) \cup found |-> IF t \in found THEN QidOf(t)[1] ELSE a[t]]
    ELSE IF s = "metadata"
    THEN [q \in (DOMAIN a) \cup Range(u) |-> IF q \in Range(u) THEN MetaOf(q) ELSE a[q]]
    ELSE m

\* what gather_summaries can return for these titles when no request raises
SummaryMaps(ts) == [ts -> {None, Some(SummaryText)}]

(***************************************************************************)
(* The checkpointed pipeline: main and the stage functions                 *)
(***************************************************************************)
NoLocals ==
    [subcats |-> <<>>, films |-> <<>>, qids |-> <<>>, metadata |-> <<>>, summaries |-> <<>>]
NoRet == [set |-> FALSE, val |-> <<>>]

POff ==
    /\ files = [k \in Keys |-> Absent] /\ runs = 0 /\ steps = {} /\ specific_group = 0
    /\ mpc = "off" /\ groupList = <<>> /\ gi = 0 /\ local = NoLocals /\ printed = {}
    /\ assembled = {} /\ stage = "none" /\ spc = "off" /\ sarg = <<>> /\ acc = <<>>
    /\ widx = 0 /\ netCalls = 0 /\ ret = <<>> /\ startFile = Absent
    /\ firstRet = [k \in Keys |-> NoRet] /\ written = [k \in Keys |-> NoRet]

\* an empty checkpoint directory, main not yet invoked
PInit ==
    /\ files = [k \in Keys |-> Absent] /\ runs = 0 /\ steps = {} /\ specific_group = 0
    /\ mpc = "idle" /\ groupList = <<>> /\ gi = 0 /\ local = NoLocals /\ printed = {}
    /\ assembled = {} /\ stage = "none" /\ spc = "off" /\ sarg = <<>> /\ acc = <<>>
    /\ widx = 0 /\ netCalls = 0 /\ ret = <<>> /\ startFile = Absent
    /\ firstRet = [k \in Keys |-> NoRet] /\ written = [k \in Keys |-> NoRet]

Ended == {"done", "returned", "fatal", "crashed", "interrupted"}
Running == {"subcats", "films", "filter", "loop", "qids", "metadata", "summaries", "csv"}

\* the group of the current loop iteration (0 before the loop)
CurGroup == IF gi \in 1..Len(groupList) THEN groupList[gi] ELSE 0
CurKey == Key(stage, CurGroup)

\* run_all or "<step>" in steps
Selected(s) == "all" \in steps \/ s \in steps

\* where main goes after a stage
NextPc(s) ==
    IF s = "subcats" THEN "films"
    ELSE IF s = "films" THEN "filter"
    ELSE IF s = "qids" THEN "metadata"
    ELSE IF s = "metadata" THEN "summaries"
    ELSE "csv"

AfterMissingGroupReturn == "returned"
\* main's answer to a missing per-group checkpoint: continue
AfterMissingGroup == "loop"

\* main's answer to a missing global checkpoint: return
AfterMissingGlobal == "returned"

\* the argument main passes to a stage
ArgOf(s) ==
    IF s = "subcats" THEN <<>>
    ELSE IF s = "films" THEN local.subcats
    ELSE IF s = "qids" THEN local.films[CurGroup]
    ELSE local.qids

\* python -m src.scrape_wiki --steps ... --group ...: one invocation of main,
\* in a new process
StartMain ==
    /\ mpc = "idle"
    /\ runs < MaxRuns
    /\ runs' = runs + 1
    /\ steps' \in StepChoices
    /\ specific_group' \in 0..(NGroups + 1)
    /\ mpc' = "subcats"
    /\ groupList' = <<>> /\ gi' = 0 /\ local' = NoLocals /\ printed' = {}
    /\ assembled' = {} /\ stage' = "none" /\ spc' = "off" /\ sarg' = <<>>
    /\ acc' = <<>> /\ widx' = 0 /\ netCalls' = 0 /\ ret' = <<>> /\ startFile' = Absent
    /\ UNCHANGED <<files, firstRet, written>>

\* the process of an invocation that has ended is gone, and with it all that
\* main held; the checkpoint directory stays
Exit ==
    /\ mpc \in Ended
    /\ mpc' = "idle"
    /\ steps' = {} /\ specific_group' = 0
    /\ groupList' = <<>> /\ gi' = 0 /\ local' = NoLocals /\ printed' = {}
    /\ assembled' = {} /\ stage' = "none" /\ spc' = "off" /\ sarg' = <<>>
    /\ acc' = <<>> /\ widx' = 0 /\ netCalls' = 0 /\ ret' = <<>> /\ startFile' = Absent
    /\ UNCHANGED <<files, runs, firstRet, written>>

\* main calls the stage function of a selected step
EnterStage ==
    /\ mpc \in StageNames /\ stage = "none"
    /\ Selected(mpc)
    /\ stage' = mpc
    /\ spc' = "check"
    /\ sarg' = ArgOf(mpc)
    /\ acc' = EmptyAcc(mpc, ArgOf(mpc))
    /\ widx' = 0
    /\ netCalls' = 0
    /\ ret' = <<>>
    /\ startFile' = files[Key(mpc, CurGroup)]
    /\ UNCHANGED <<files, runs, steps, specific_group, mpc, groupList, gi, local,
                   printed, assembled, firstRet, written>>

\* a step that is not selected: main loads the checkpoint itself
MainLoad ==
    /\ mpc \in StageNames /\ stage = "none"
    /\ ~Selected(mpc)
    /\ LET k == Key(mpc, CurGroup)
       IN  /\ CheckpointExists(files[k])
           /\ files' = [files EXCEPT ![k] = OpenForRead(@)]
           /\ IF files[k].st = "partial"
              THEN /\ mpc' = "crashed"
                   /\ UNCHANGED local
              ELSE /\ local' = [local EXCEPT ![mpc] = Load(mpc, files[k].data)]
                   /\ mpc' = NextPc(mpc)
    /\ UNCHANGED <<runs, steps, specific_group, groupList, gi, printed, assembled,
                   stage, spc, sarg, acc, widx, netCalls, ret, startFile,
                   firstRet, written>>

\* a step that is not selected and has no checkpoint: report it; a global
\* stage makes main return, a per-group stage makes the loop continue
MainMissing ==
    /\ mpc \in StageNames /\ stage = "none"
    /\ ~Selected(mpc)
    /\ ~CheckpointExists(files[Key(mpc, CurGroup)])
    /\ printed' = printed \cup {<<"missing", mpc, CurGroup>>}
    /\ IF mpc \in GlobalStages
       THEN /\ mpc' = AfterMissingGlobal
            /\ UNCHANGED gi
       ELSE /\ mpc' = AfterMissingGroup
            /\ gi' = gi + 1
    /\ UNCHANGED <<files, runs, steps, specific_group, groupList, local, assembled,
                   stage, spc, sarg, acc, widx, netCalls, ret, startFile,
                   firstRet, written>>

\* if specific_group: keep that group or report it unknown and return; then
\* the loop starts over films_map.items()
Filter ==
    /\ mpc = "filter"
    /\ IF specific_group # 0 /\ specific_group \notin DOMAIN local.films
       THEN /\ printed' = printed \cup {<<"notfound", "", specific_group>>}
            /\ mpc' = "returned"
            /\ UNCHANGED <<local, groupList, gi>>
       ELSE /\ local' = [local EXCEPT !.films =
                            IF specific_group = 0 THEN @
                            ELSE [g \in {specific_group} |-> @[g]]]
            /\ groupList' = SortedSeq(DOMAIN local'.films)
            /\ gi' = 1
            /\ mpc' = "loop"
            /\ UNCHANGED printed
    /\ UNCHANGED <<files, runs, steps, specific_group, assembled, stage, spc, sarg,
                   acc, widx, netCalls, ret, startFile, firstRet, written>>

\* for group, titles in films_map.items(): print the group and go to step 3
Loop ==
    /\ mpc = "loop"
    /\ IF gi > Len(groupList)
       THEN /\ mpc' = "done"
            /\ UNCHANGED printed
       ELSE /\ printed' = printed \cup {<<"processing", "", groupList[gi]>>}
            /\ mpc' = "qids"
    /\ UNCHANGED <<files, runs, steps, specific_group, groupList, gi, local, assembled,
                   stage, spc, sarg, acc, widx, netCalls, ret, startFile,
                   firstRet, written>>

\* step 6: assemble_csv when selected; then the next group
Csv ==
    /\ mpc = "csv"
    /\ assembled' = IF Selected("csv") THEN assembled \cup {CurGroup} ELSE assembled
    /\ gi' = gi + 1
    /\ mpc' = "loop"
    /\ UNCHANGED <<files, runs, steps, specific_group, groupList, local, printed,
                   stage, spc, sarg, acc, widx, netCalls, ret, startFile,
                   firstRet, written>>

\* the network calls of the running stage, and the next one
Units == WorkUnits(stage, sarg)

\* if checkpoint_file.exists()
StageCheck ==
    /\ mpc \in Running /\ stage # "none" /\ spc = "check"
    /\ spc' = IF CheckpointExists(files[CurKey]) THEN "load" ELSE "work"
    /\ UNCHANGED <<files, runs, steps, specific_group, mpc, groupList, gi, local,
                   printed, assembled, stage, sarg, acc, widx, netCalls, ret,
                   startFile, firstRet, written>>

\* with open(checkpoint_file, 'r') as f: return json.load(f)
\* (a file that was never completely written makes json.load raise)
StageLoad ==
    /\ mpc \in Running /\ stage # "none" /\ spc = "load"
    /\ files' = [files EXCEPT ![CurKey] = OpenForRead(@)]
    /\ IF files[CurKey].st = "partial"
       THEN /\ mpc' = "crashed"
            /\ UNCHANGED <<ret, spc>>
       ELSE /\ ret' = Load(stage, files[CurKey].data)
            /\ spc' = "ret"
            /\ mpc' = mpc
    /\ UNCHANGED <<runs, steps, specific_group, groupList, gi, local, printed,
                   assembled, stage, sarg, acc, widx, netCalls, startFile,
                   firstRet, written>>

\* the stage's next network call succeeds
StageWorkOk ==
    /\ mpc \in Running /\ stage # "none" /\ spc = "work"
    /\ widx < Len(Units)
    /\ LET u == Units[widx + 1]
       IN  IF stage = "summaries"
           THEN /\ \E m \in SummaryMaps(Range(u)) : acc' = AfterUnit(stage, acc, u, m)
                /\ netCalls' = netCalls + Len(u)
           ELSE /\ acc' = AfterUnit(stage, acc, u, <<>>)
                /\ netCalls' = netCalls + 1
    /\ widx' = widx + 1
    /\ UNCHANGED <<files, runs, steps, specific_group, mpc, groupList, gi, local,
                   printed, assembled, stage, spc, sarg, ret, startFile,
                   firstRet, written>>

\* the stage's next network call fails for good: _safe_request or run_sparql
\* raises after its last attempt, or a summary request raises; nothing in the
\* stage or in main catches it
StageWorkFatal ==
    /\ mpc \in Running /\ stage # "none" /\ spc = "work"
    /\ widx < Len(Units)
    /\ stage = "summaries" => Units[widx + 1] # <<>>
    /\ netCalls' = netCalls + 1
    /\ mpc' = "fatal"
    /\ UNCHANGED <<files, runs, steps, specific_group, groupList, gi, local, printed,
                   assembled, stage, spc, sarg, acc, widx, ret, startFile,
                   firstRet, written>>

\* with open(checkpoint_file, 'w') as f: the file is created empty
StageOpen ==
    /\ mpc \in Running /\ stage # "none" /\ spc = "work"
    /\ widx = Len(Units)
    /\ files' = [files EXCEPT ![CurKey] = Partial]
    /\ spc' = "dump"
    /\ UNCHANGED <<runs, steps, specific_group, mpc, groupList, gi, local, printed,
                   assembled, stage, sarg, acc, widx, netCalls, ret, startFile,
                   firstRet, written>>

\* json.dump(..., f) and the end of the with block: the file is complete
StageDump ==
    /\ mpc \in Running /\ stage # "none" /\ spc = "dump"
    /\ \E d \in Dump(stage, acc) :
           /\ files' = [files EXCEPT ![CurKey] = Complete(d)]
           /\ written' = [written EXCEPT ![CurKey] = [set |-> TRUE, val |-> d]]
    /\ ret' = acc
    /\ spc' = "ret"
    /\ UNCHANGED <<runs, steps, specific_group, mpc, groupList, gi, local, printed,
                   assembled, stage, sarg, acc, widx, netCalls, startFile, firstRet>>

\* the stage returns to main, which binds the result
StageReturn ==
    /\ mpc \in Running /\ stage # "none" /\ spc = "ret"
    /\ local' = [local EXCEPT ![stage] = ret]
    /\ firstRet' = IF startFile.st = "absent"
                   THEN [firstRet EXCEPT ![CurKey] = [set |-> TRUE, val |-> ret]]
                   ELSE firstRet
    /\ mpc' = NextPc(stage)
    /\ stage' = "none"
    /\ spc' = "off"
    /\ UNCHANGED <<files, runs, steps, specific_group, groupList, gi, printed,
                   assembled, sarg, acc, widx, netCalls, ret, startFile, written>>

\* the process is stopped (a signal, a power cut) while a stage executes
Interrupt ==
    /\ mpc \in Running /\ stage # "none"
    /\ mpc' = "interrupted"
    /\ UNCHANGED <<files, runs, steps, specific_group, groupList, gi, local, printed,
                   assembled, stage, spc, sarg, acc, widx, netCalls, ret, startFile,
                   firstRet, written>>

PIdle == UNCHANGED <<gvars, rvars, dvars, cvars>>

PNext ==
    \/ StartMain /\ PIdle
    \/ Exit /\ PIdle
    \/ EnterStage /\ PIdle
    \/ MainLoad /\ PIdle
    \/ MainMissing /\ PIdle
    \/ Filter /\ PIdle
    \/ Loop /\ PIdle
    \/ Csv /\ PIdle
    \/ StageCheck /\ PIdle
    \/ StageLoad /\ PIdle
    \/ StageWorkOk /\ PIdle
    \/ StageWorkFatal /\ PIdle
    \/ StageOpen /\ PIdle
    \/ StageDump /\ PIdle
    \/ StageReturn /\ PIdle
    \/ Interrupt /\ PIdle

(***************************************************************************)
(* Strings.  A Python str is the sequence of its characters.               *)
(***************************************************************************)
\* the characters the model uses, in code point order
CodeOrder ==
    <<"\n", "\r", " ", "\"", "-", ".", "0", "1", "2", "3", "4", "5", "6", "7", "8",
      "9", ";", "A", "B", "C", "D", "E", "F", "G", "H", "I", "J", "K", "L",
      "M", "N", "O", "P", "Q", "R", "S", "T", "U", "V", "W", "X", "Y", "Z",
      "a", "b", "c", "d", "e", "f", "g", "h", "i", "j", "k", "l", "m", "n",
      "o", "p", "q", "r", "s", "t", "u", "v", "w", "x", "y", "z">>
Ord(c) == CHOOSE i \in 1..Len(CodeOrder) : CodeOrder[i] = c
Digits == {"0", "1", "2", "3", "4", "5", "6", "7", "8", "9"}
Whitespace == {" ", "\n", "\r"}
\* str.lower and str.upper of one character
Lower(c) ==
    IF Ord("A") <= Ord(c) /\ Ord(c) <= Ord("Z")
    THEN CodeOrder[Ord(c) + (Ord("a") - Ord("A"))] ELSE c
Upper(c) ==
    IF Ord("a") <= Ord(c) /\ Ord(c) <= Ord("z")
    THEN CodeOrder[Ord(c) - (Ord("a") - Ord("A"))] ELSE c

\* s < t for two str: the first differing character decides, a proper prefix
\* is smaller
StrLess(s, t) ==
    \E i \in 1..(Len(t)) :
        /\ \A j \in 1..(i - 1) : j <= Len(s) /\ s[j] = t[j]
        /\ i - 1 <= Len(s)
        /\ (i > Len(s) \/ Ord(s[i]) < Ord(t[i]))

RECURSIVE Sorted(_)
\* sorted(S) for a set of str
Sorted(S) ==
    IF S = {} THEN <<>>
    ELSE LET m == CHOOSE x \in S : \A y \in S \ {x} : StrLess(x, y)
         IN  <<m>> \o Sorted(S \ {m})

\* str.strip()
Strip(s) ==
    LET keep == {i \in 1..Len(s) : s[i] \notin Whitespace}
    IN  IF keep = {} THEN <<>>
        ELSE SubSeq(s, CHOOSE i \in keep : \A j \in keep : i <= j,
                       CHOOSE i \in keep : \A j \in keep : i >= j)

RECURSIVE Split(_, _)
\* str.split(sep) for a separator of one character
Split(s, sep) ==
    LET at == {i \in 1..Len(s) : s[i] = sep}
    IN  IF at = {} THEN <<s>>
        ELSE LET i == CHOOSE x \in at : \A y \in at : x <= y
             IN  <<SubSeq(s, 1, i - 1)>> \o Split(SubSeq(s, i + 1, Len(s)), sep)

RECURSIVE Join(_, _)
\* sep.join(parts)
Join(sep, parts) ==
    IF parts = <<>> THEN <<>>
    ELSE IF Len(parts) = 1 THEN parts[1]
    ELSE parts[1] \o sep \o Join(sep, Tail(parts))

\* str.startswith
StartsWith(s, p) == Len(s) >= Len(p) /\ SubSeq(s, 1, Len(p)) = p

\* str.replace(a, b) for single characters (b may be the empty str)
Replace(s, a, b) ==
    LET RECURSIVE go(_)
        go(i) == IF i > Len(s) THEN <<>>
                 ELSE (IF s[i] = a THEN b ELSE <<s[i]>>) \o go(i + 1)
    IN  go(1)

\* re.sub(r'\s+', ' ', s)
CollapseSpaces(s) ==
    LET RECURSIVE go(_)
        go(i) == IF i > Len(s) THEN <<>>
                 ELSE IF s[i] \in Whitespace
                 THEN (IF i > 1 /\ s[i - 1] \in Whitespace THEN <<>> ELSE <<" ">>)
                      \o go(i + 1)
                 ELSE <<s[i]>> \o go(i + 1)
    IN  go(1)

\* all str over an alphabet, of length at most n
StringsUpTo(alphabet, n) == UNION {[1..k -> alphabet] : k \in 0..n}

(***************************************************************************)
(* data_cleaning: the cell functions                                       *)
(***************************************************************************)
\* rows of one table handed to clean_dataset at most
MaxRows == 3
\* longest people string tried
MaxPeopleLen == 4
\* longest imdb_id string tried
MaxIdLen == 4
\* clean_year: if 1890 <= year_int <= current_year
MinYear == 1890
\* pd.Timestamp.now().year
current_year == 2026

\* clean_title: strip, and the two replace calls (which put a '"' where
\* there is a '"')
clean_title(title) ==
    IF title = None THEN title
    ELSE Some(Replace(Replace(Strip(title[1]), "\"", <<"\"">>), "\"", <<"\"">>))

\* re.match(r'^tt\d+$', s)
MatchesImdb(s) ==
    /\ Len(s) >= 3
    /\ s[1] = "t" /\ s[2] = "t"
    /\ \A i \in 3..Len(s) : s[i] \in Digits

PrefixAlways(s) == TRUE
\* if imdb_id and not imdb_id.startswith('tt')
NeedsPrefix(s) == s # <<>> /\ ~StartsWith(s, <<"t", "t">>)

\* standardize_imdb
standardize_imdb(imdb_id) ==
    IF imdb_id = None THEN imdb_id
    ELSE LET s == Strip(imdb_id[1])
             p == IF NeedsPrefix(s) THEN <<"t", "t">> \o s ELSE s
         IN  IF MatchesImdb(p) THEN Some(p) ELSE None

(* A year cell.  k = "num": an int or a float, given in tenths; "str": a    *)
(* str that float() parses, in tenths; "text": a str float() rejects;       *)
(* "huge": an int too large for a float; "inf": the float infinity.         *)

\* int(float(year)): truncation toward zero
YearInt(y) == IF y.tenths >= 0 THEN y.tenths \div 10 ELSE 0 - ((0 - y.tenths) \div 10)

\* float(year) raises OverflowError for an int beyond the float range and
\* int(year_float) raises it for an infinity; clean_year catches only
\* ValueError and TypeError
clean_year_raises(year) == year # None /\ year[1].k \in {"huge", "inf"}

\* clean_year, for a cell on which it does not raise
clean_year(year) ==
    IF year = None THEN year
    ELSE IF year[1].k = "text" THEN None
    ELSE IF MinYear <= YearInt(year[1]) /\ YearInt(year[1]) <= current_year
    THEN Some(YearInt(year[1])) ELSE None

\* clean_summary
clean_summary(summary) ==
    IF summary = None \/ summary = Some(<<>>) THEN None
    ELSE LET a == Strip(summary[1])
             b == Replace(Replace(a, "\"", <<"\"">>), "\"", <<"\"">>)
             c == Replace(Replace(b, "\n", <<" ">>), "\r", <<>>)
         IN  Some(CollapseSpaces(c))

SortedAsGiven(names) == names
\* sorted(list(set(people_list)))
SortedNames(names) == Sorted(Range(names))

\* clean_people, for a str or null cell
clean_people(people) ==
    IF people = None \/ people = Some(<<>>) THEN None
    ELSE LET parts == Split(people[1], ";")
             stripped == [i \in 1..Len(parts) |-> Strip(parts[i])]
             kept == SelectSeq(stripped, LAMBDA p : p # <<>>)
             people_list == SortedNames(kept)
         IN  IF people_list # <<>> THEN Some(Join(<<";", " ">>, people_list)) ELSE None

(***************************************************************************)
(* data_cleaning: tables.  A table is the sequence of its rows; every cell *)
(* is nullable.                                                            *)
(***************************************************************************)
Row(title, imdb_id, year, summary, people) ==
    [title |-> title, imdb_id |-> imdb_id, year |-> year, summary |-> summary,
     people |-> people]

\* the five cleaning steps of clean_dataset, cell by cell
CleanRow(r) ==
    Row(clean_title(r.title), standardize_imdb(r.imdb_id), clean_year(r.year),
        clean_summary(r.summary), clean_people(r.people))

\* df.drop_duplicates(subset=['title'], keep='first')
drop_duplicates(rows) ==
    LET RECURSIVE go(_)
        go(i) == IF i > Len(rows) THEN <<>>
                 ELSE (IF \E j \in 1..(i - 1) : rows[j].title = rows[i].title
                       THEN <<>> ELSE <<rows[i]>>) \o go(i + 1)
    IN  go(1)

RowBeforeNullsFirst(a, b) ==
    IF a.year # b.year
    THEN a.year = None \/ (b.year # None /\ a.year[1] > b.year[1])
    ELSE IF a.title = b.title THEN FALSE
    ELSE a.title # None /\ (b.title = None \/ StrLess(a.title[1], b.title[1]))
\* the order of sort_values(by=['year', 'title'], ascending=[False, True],
\* na_position='last'): a goes strictly before b
RowBefore(a, b) ==
    IF a.year # b.year
    THEN a.year # None /\ (b.year = None \/ a.year[1] > b.year[1])
    ELSE IF a.title = b.title THEN FALSE
    ELSE a.title # None /\ (b.title = None \/ StrLess(a.title[1], b.title[1]))

RECURSIVE sort_values(_)
\* df.sort_values(...): rows that compare equal keep their order
sort_values(rows) ==
    IF rows = <<>> THEN <<>>
    ELSE LET r == rows[Len(rows)]
             front == sort_values(SubSeq(rows, 1, Len(rows) - 1))
             n == Cardinality({i \in 1..Len(front) : ~RowBefore(r, front[i])})
         IN  SubSeq(front, 1, n) \o <<r>> \o SubSeq(front, n + 1, Len(front))

\* whether clean_dataset raises on this table
clean_dataset_raises(df) == \E i \in 1..Len(df) : clean_year_raises(df[i].year)

\* clean_dataset: clean the cells, drop the duplicate titles, sort
clean_dataset(df) ==
    sort_values(drop_duplicates([i \in 1..Len(df) |-> CleanRow(df[i])]))

\* enrich_dataset.extract_decade: int(year // 10 * 10)
extract_decade(year) == IF year = None THEN None ELSE Some((year[1] \div 10) * 10)

\* enrich_dataset.count_people: len(people.split(';'))
count_people(people) == IF people = None THEN 0 ELSE Len(Split(people[1], ";"))

\* the languages of add_language_column, in the order of the pattern
languages ==
    << <<"H", "i", "n", "d", "i">>, <<"T", "a", "m", "i", "l">>,
       <<"T", "e", "l", "u", "g", "u">>,
       <<"M", "a", "l", "a", "y", "a", "l", "a", "m">>,
       <<"K", "a", "n", "n", "a", "d", "a">>, <<"B", "e", "n", "g", "a", "l", "i">>,
       <<"M", "a", "r", "a", "t", "h", "i">>, <<"P", "u", "n", "j", "a", "b", "i">>,
       <<"G", "u", "j", "a", "r", "a", "t", "i">>,
       <<"A", "s", "s", "a", "m", "e", "s", "e">>, <<"O", "d", "i", "a">>,
       <<"B", "h", "o", "j", "p", "u", "r", "i">>, <<"U", "r", "d", "u">> >>

LowerStr(s) == [i \in 1..Len(s) |-> Lower(s[i])]

\* str.title(): a letter after a non-letter is upper-cased, the others lowered
TitleStr(s) ==
    [i \in 1..Len(s) |->
        IF i = 1 \/ Lower(s[i - 1]) = Upper(s[i - 1]) THEN Upper(s[i]) ELSE Lower(s[i])]

\* whether (?i)(<language>)[\s\-]language matches s at position i
LanguageAt(s, i, lang) ==
    LET n == Len(lang)
        word == <<"l", "a", "n", "g", "u", "a", "g", "e">>
    IN  /\ i + n + Len(word) <= Len(s)
        /\ LowerStr(SubSeq(s, i, i + n - 1)) = LowerStr(lang)
        /\ s[i + n] \in Whitespace \cup {"-"}
        /\ LowerStr(SubSeq(s, i + n + 1, i + n + Len(word))) = word

\* add_language_column.extract_language: re.search gives the leftmost match,
\* and at one position the first alternative that matches
extract_language(summary) ==
    IF summary = None THEN None
    ELSE LET s == summary[1]
             hits == {i \in 1..Len(s) : \E l \in 1..Len(languages) :
                                            LanguageAt(s, i, languages[l])}
         IN  IF hits = {} THEN None
             ELSE LET i == CHOOSE x \in hits : \A y \in hits : x <= y
                      l == CHOOSE x \in 1..Len(languages) :
                               /\ LanguageAt(s, i, languages[x])
                               /\ \A y \in 1..(x - 1) : ~LanguageAt(s, i, languages[y])
                  IN  Some(TitleStr(SubSeq(s, i, i + Len(languages[l]) - 1)))

\* enrich_dataset then add_language_column, row by row
EnrichRow(r) ==
    [title |-> r.title, imdb_id |-> r.imdb_id, year |-> r.year, summary |-> r.summary,
     people |-> r.people, decade |-> extract_decade(r.year),
     people_count |-> count_people(r.people), has_summary |-> r.summary # None,
     language |-> extract_language(r.summary)]

\* dict.get(key): None for a missing key
Get(d, k) == IF k \in DOMAIN d THEN d[k] ELSE None

\* assemble_csv: one row per item of qid_map (a list of (title, qid) in the
\* dict's order), then clean_dataset, enrich_dataset, add_language_column
assemble_csv(qid_map, meta_map, summaries_map) ==
    LET rows == [i \in 1..Len(qid_map) |->
                    LET title == qid_map[i][1]
                        m == IF qid_map[i][2] \in DOMAIN meta_map
                             THEN meta_map[qid_map[i][2]] ELSE <<>>
                    IN  Row(Some(title), Get(m, "imdb_id"), Get(m, "year"),
                            Get(summaries_map, title), Get(m, "people"))]
        cleaned == clean_dataset(rows)
    IN  [i \in 1..Len(cleaned) |-> EnrichRow(cleaned[i])]

(***************************************************************************)
(* wikimedia_api.query_wikidata_batch: the merge of the result rows        *)
(***************************************************************************)
\* rows of one SPARQL result at most
MaxResultRows == 2

(* A result row has ?film bound and any of ?imdb, ?date, ?personLabel; an  *)
(* unbound variable is a missing key (None here).  The film is its URI,    *)
(* given as the list of its "/"-separated parts.  A date is well formed    *)
(* (ok), with a year, or not.                                              *)
\* row["film"].split("/")[-1]
QidOfUri(uri) == uri[Len(uri)]

\* datetime.fromisoformat(row["date"].split("T")[0]).year, or None when it
\* raises (except Exception: pass)
YearOfDate(d) == IF d.ok THEN Some(d.year) ELSE None

PyOrLast(a, b) == IF b # None THEN b ELSE a
\* a or b, for nullable str
PyOr(a, b) == IF a # None /\ a # Some(<<>>) THEN a ELSE b

\* out.setdefault(qid, {...}) and the three updates for one row
MergeRow(sofar, row) ==
    LET qid == QidOfUri(row.film)
        e == IF qid \in DOMAIN sofar THEN sofar[qid]
             ELSE [imdb_id |-> None, year |-> None, people |-> {}]
        e2 == [imdb_id |-> PyOr(e.imdb_id, row.imdb),
               year |-> IF row.date # None /\ e.year = None
                        THEN YearOfDate(row.date[1]) ELSE e.year,
               people |-> IF row.personLabel # None
                          THEN e.people \cup {row.personLabel[1]} ELSE e.people]
    IN  Extend(sofar, qid, e2)

\* query_wikidata_batch on the rows run_sparql returned
query_wikidata_batch(rows) ==
    LET RECURSIVE fold(_)
        fold(i) == IF i = 0 THEN <<>> ELSE MergeRow(fold(i - 1), rows[i])
        merged == fold(Len(rows))
    IN  [q \in DOMAIN merged |->
            [imdb_id |-> merged[q].imdb_id, year |-> merged[q].year,
             people |-> IF merged[q].people # {}
                        THEN Some(Join(<<";", " ">>, Sorted(merged[q].people)))
                        ELSE None]]

(***************************************************************************)
(* scrape_wiki.resolve_qids without a checkpoint: the map it builds, as a  *)
(* function of the titles in the order the caller's collection iterates    *)
(* them                                                                    *)
(***************************************************************************)
\* without the "if qid:" test every page of the response gets an entry
resolve_qids_every_page(titles) ==
    [t \in Range(titles) |-> IF QidOf(t) = None THEN None ELSE QidOf(t)[1]]

\* for batch in chunked(sorted(titles), 50): one request per batch, and an
\* entry for each page of the response that has a wikibase_item
resolve_qids(titles) ==
    LET RECURSIVE sorted(_)
        sorted(l) ==
            IF l = <<>> THEN <<>>
            ELSE LET rest == sorted(Tail(l))
                     n == Cardinality({i \in 1..Len(rest) : rest[i] <= Head(l)})
                 IN  SubSeq(rest, 1, n) \o <<Head(l)>> \o SubSeq(rest, n + 1, Len(rest))
        batches == chunked(sorted(titles), QidBatchSize)
        RECURSIVE after(_)
        after(i) ==
            IF i = 0 THEN EmptyAcc("qids", titles)
            ELSE AfterUnit("qids", after(i - 1), batches[i], <<>>)
    IN  after(Len(batches))

(***************************************************************************)
(* Inputs of the data functions                                            *)
(***************************************************************************)
\* year cells: values around both ends of the range, as int, float and str,
\* and the cells float() or int() cannot convert
YearInputs ==
    LET tried == {0, 1889, MinYear, 1891, 2005, current_year - 1, current_year,
                  current_year + 1}
    IN  {None}
        \cup {Some([k |-> k, tenths |-> 10 * y + d]) :
                 k \in {"num", "str"}, y \in tried, d \in {0, 5, 9}}
        \cup {Some([k |-> "num", tenths |-> 0 - 18905]), Some([k |-> "num", tenths |-> 0 - 10])}
        \cup {Some([k |-> k, tenths |-> 0]) : k \in {"text", "huge", "inf"}}

PeopleInputs == {None} \cup {Some(s) : s \in StringsUpTo({"a", "b", ";", " "}, MaxPeopleLen)}

ImdbInputs == {None} \cup {Some(s) : s \in StringsUpTo({"t", "7", " "}, MaxIdLen)}

DigitChar(i) == <<"0", "1", "2", "3", "4", "5", "6", "7", "8", "9">>[i + 1]

\* resolve_qids: up to MaxTitles titles, in every iteration order
MaxTitles == 3

\* chunked: sequences of up to MaxChunkLen elements, sizes 1..MaxChunkSize
MaxChunkLen == 4
MaxChunkSize == 3

\* tables of up to MaxRows rows: the title, the year and the summary (none, or
\* one blank) of a row vary, its imdb_id tells which input row it was
TableChoices ==
    {<<"A">>, <<"A", " ">>, <<"B">>}
    \X {None, Some([k |-> "num", tenths |-> 18000]), Some([k |-> "num", tenths |-> 19900]),
        Some([k |-> "num", tenths |-> 20050])}
    \X {None, Some(<<" ">>)}
TableOf(f) ==
    [i \in DOMAIN f |-> Row(Some(f[i][1]), Some(<<"t", "t", DigitChar(i)>>),
                            f[i][2], f[i][3], None)]

\* the two-title scenario: Film A -> Q1 with full metadata, Film B -> Q2 with
\* none.  The dict order, the shape of Q2's empty metadata and the shape of
\* Film B's null summary (None, or the "" of the summaries checkpoint) vary.
FilmA == <<"F", "i", "l", "m", " ", "A">>
FilmB == <<"F", "i", "l", "m", " ", "B">>
ScenarioInputs ==
    LET text == <<"A", " ", "H", "i", "n", "d", "i", "-", "l", "a", "n", "g", "u", "a",
                  "g", "e", " ", "d", "r", "a", "m", "a", ".">>
        q1 == [imdb_id |-> Some(<<"t", "t", "1", "2", "3">>),
               year |-> Some([k |-> "num", tenths |-> 20050]),
               people |-> Some(<<"X", ";", " ", "Y">>)]
    IN  {[qid_map |-> qm, meta_map |-> mm, summaries |-> sm] :
            qm \in {<< <<FilmA, "Q1">>, <<FilmB, "Q2">> >>,
                    << <<FilmB, "Q2">>, <<FilmA, "Q1">> >>},
            mm \in {[q \in {"Q1"} |-> q1],
                    [q \in {"Q1", "Q2"} |-> IF q = "Q1" THEN q1 ELSE <<>>],
                    [q \in {"Q1", "Q2"} |-> IF q = "Q1" THEN q1
                                            ELSE [imdb_id |-> None, year |-> None,
                                                  people |-> None]]},
            sm \in {[t \in {FilmA} |-> Some(text)],
                    [t \in {FilmA, FilmB} |-> IF t = FilmA THEN Some(text) ELSE None],
                    [t \in {FilmA, FilmB} |-> IF t = FilmA THEN Some(text) ELSE Some(<<>>)]}}

\* SPARQL results of up to MaxResultRows rows over two films; the imdb and
\* the year of a row tell which row it was
ResultChoices ==
    {"Q1", "Q2"} \X BOOLEAN \X {"none", "bad", "good"} \X {None, Some(<<"X">>), Some(<<"Y">>)}
ResultOf(f) ==
    [i \in DOMAIN f |->
        [film |-> <<"http:", "", "www.wikidata.org", "entity", f[i][1]>>,
         imdb |-> IF f[i][2] THEN Some(<<"t", "t", DigitChar(i)>>) ELSE None,
         date |-> IF f[i][3] = "none" THEN None
                  ELSE Some([ok |-> f[i][3] = "good", year |-> 2000 + i]),
         personLabel |-> f[i][4]]]

(***************************************************************************)
(* One call of a data function                                             *)
(***************************************************************************)
DOff == dpc = "off" /\ dfun = "none" /\ dinput = <<>> /\ doutput = <<>>

DInit ==
    /\ dpc = "call"
    /\ doutput = <<>>
    /\ dfun \in {"clean_year", "clean_people", "standardize_imdb", "clean_dataset",
                 "assemble_csv", "query_wikidata_batch", "resolve_qids", "chunked"}
    /\ IF dfun = "clean_year" THEN dinput \in YearInputs
       ELSE IF dfun = "clean_people" THEN dinput \in PeopleInputs
       ELSE IF dfun = "standardize_imdb" THEN dinput \in ImdbInputs
       ELSE IF dfun = "clean_dataset"
       THEN \E n \in 0..MaxRows : \E f \in [1..n -> TableChoices] :
                dinput = TableOf(f)
       ELSE IF dfun = "assemble_csv" THEN dinput \in ScenarioInputs
       ELSE IF dfun = "chunked"
       THEN \E n \in 0..MaxChunkLen : \E f \in [1..n -> {"a", "b"}] :
                \E size \in 1..MaxChunkSize : dinput = [it |-> f, size |-> size]
       ELSE IF dfun = "resolve_qids"
       THEN \E n \in 0..MaxTitles : \E f \in [1..n -> {11, 13, 21, 23, 31}] :
                /\ \A i, j \in 1..n : f[i] = f[j] => i = j
                /\ \E g \in Groups : dinput = [titles |-> f, group |-> g]
       ELSE \E n \in 0..MaxResultRows : \E f \in [1..n -> ResultChoices] :
                dinput = ResultOf(f)

\* normalize_years on a one-cell column
CallCleanYear ==
    /\ dpc = "call" /\ dfun = "clean_year"
    /\ IF clean_year_raises(dinput)
       THEN dpc' = "raised" /\ doutput' = doutput
       ELSE dpc' = "done" /\ doutput' = clean_year(dinput)
    /\ UNCHANGED <<dfun, dinput>>

\* normalize_people on a one-cell column
CallCleanPeople ==
    /\ dpc = "call" /\ dfun = "clean_people"
    /\ dpc' = "done"
    /\ doutput' = clean_people(dinput)
    /\ UNCHANGED <<dfun, dinput>>

\* standardize_imdb_ids on a one-cell column
CallStandardizeImdb ==
    /\ dpc = "call" /\ dfun = "standardize_imdb"
    /\ dpc' = "done"
    /\ doutput' = standardize_imdb(dinput)
    /\ UNCHANGED <<dfun, dinput>>

CallCleanDataset ==
    /\ dpc = "call" /\ dfun = "clean_dataset"
    /\ IF clean_dataset_raises(dinput)
       THEN dpc' = "raised" /\ doutput' = doutput
       ELSE dpc' = "done" /\ doutput' = clean_dataset(dinput)
    /\ UNCHANGED <<dfun, dinput>>

CallAssembleCsv ==
    /\ dpc = "call" /\ dfun = "assemble_csv"
    /\ dpc' = "done"
    /\ doutput' = assemble_csv(dinput.qid_map, dinput.meta_map, dinput.summaries)
    /\ UNCHANGED <<dfun, dinput>>

CallQueryWikidataBatch ==
    /\ dpc = "call" /\ dfun = "query_wikidata_batch"
    /\ dpc' = "done"
    /\ doutput' = query_wikidata_batch(dinput)
    /\ UNCHANGED <<dfun, dinput>>

\* resolve_qids(titles, group) when the group has no checkpoint: build the
\* map, write it to the group's checkpoint file, return it
CallResolveQids ==
    /\ dpc = "call" /\ dfun = "resolve_qids"
    /\ ~CheckpointExists(files[Key("qids", dinput.group)])
    /\ dpc' = "done"
    /\ doutput' = resolve_qids(dinput.titles)
    /\ \E d \in Dump("qids", resolve_qids(dinput.titles)) :
           /\ files' = [files EXCEPT ![Key("qids", dinput.group)] = Complete(d)]
           /\ written' = [written EXCEPT ![Key("qids", dinput.group)] =
                                            [set |-> TRUE, val |-> d]]
    /\ UNCHANGED <<dfun, dinput, gvars, rvars, cvars>>
    /\ UNCHANGED <<runs, steps, specific_group, mpc, groupList, gi, local, printed,
                   assembled, stage, spc, sarg, acc, widx, netCalls, ret, startFile,
                   firstRet>>

\* list(chunked(it, size))
CallChunked ==
    /\ dpc = "call" /\ dfun = "chunked"
    /\ dpc' = "done"
    /\ doutput' = chunked(dinput.it, dinput.size)
    /\ UNCHANGED <<dfun, dinput>>

DIdle == UNCHANGED <<gvars, rvars, pvars, cvars>>

DNext ==
    \/ CallCleanYear /\ DIdle
    \/ CallCleanPeople /\ DIdle
    \/ CallStandardizeImdb /\ DIdle
    \/ CallCleanDataset /\ DIdle
    \/ CallAssembleCsv /\ DIdle
    \/ CallQueryWikidataBatch /\ DIdle
    \/ CallResolveQids
    \/ CallChunked /\ DIdle

(***************************************************************************)
(* wikimedia_api.fetch_category_members                                    *)
(***************************************************************************)
\* result pages of one category at most
MaxPages == 3
\* members on one result page at most
MaxPageSize == 2

COff ==
    /\ cpc = "off" /\ catpages = <<>> /\ cont_token = <<>> /\ members = <<>>
    /\ requests = <<>> /\ cmret = None

\* the cmcontinue value the API puts in the response that carries page p
\* (absent, hence "", on the last page); a str is given by its parts
TokenAfter(p, n) == IF p < n THEN <<"page", p + 1>> ELSE <<>>

\* the page the API answers with for a cmcontinue parameter
PageFor(token) == IF token = <<>> THEN 1 ELSE token[2]

StopAlways(token) == TRUE
\* if not cont_token: break
NoToken(token) == token = <<>>

\* members, cont_token = [], ""; the category's members are spread over
\* 1..MaxPages result pages; member j of page p is <<p, j>>
CInit ==
    /\ cpc = "request"
    /\ \E n \in 1..MaxPages : \E size \in [1..n -> 0..MaxPageSize] :
           catpages = [p \in 1..n |-> [j \in 1..size[p] |-> <<p, j>>]]
    /\ cont_token = <<>>
    /\ members = <<>>
    /\ requests = <<>>
    /\ cmret = None

\* one pass of the loop with _safe_request returning the page: extend the
\* list, take the token, break and return when there is none
PageOk ==
    /\ cpc = "request"
    /\ LET p == PageFor(cont_token)
           token == TokenAfter(p, Len(catpages))
       IN  /\ requests' = Append(requests, cont_token)
           /\ members' = members \o catpages[p]
           /\ cont_token' = token
           /\ IF NoToken(token)
              THEN cpc' = "returned" /\ cmret' = Some(members')
              ELSE cpc' = cpc /\ cmret' = cmret
    /\ UNCHANGED catpages

\* _safe_request raises after its last attempt: nothing catches it
PageFatal ==
    /\ cpc = "request"
    /\ requests' = Append(requests, cont_token)
    /\ cpc' = "raised"
    /\ UNCHANGED <<catpages, cont_token, members, cmret>>

CIdle == UNCHANGED <<gvars, rvars, pvars, dvars>>

CNext ==
    \/ PageOk /\ CIdle
    \/ PageFatal /\ CIdle

(***************************************************************************)
(* Specifications                                                          *)
(***************************************************************************)
GatherInit == GInit /\ ROff /\ POff /\ DOff /\ COff
RetryInit == RInit /\ GOff /\ POff /\ DOff /\ COff
Init == PInit /\ GOff /\ ROff /\ DOff /\ COff
DataInit == DInit /\ GOff /\ ROff /\ POff /\ COff
MembersInit == CInit /\ GOff /\ ROff /\ POff /\ DOff

SpecGather == GatherInit /\ [][GNext]_vars
SpecRetry == RetryInit /\ [][RNext]_vars
Spec == Init /\ [][PNext]_vars
SpecData == DataInit /\ [][DNext]_vars
SpecMembers == MembersInit /\ [][CNext]_vars

\* The event loop runs every task that is ready and, by the proviso that
\* every issued request completes, every request in flight gets its answer:
\* gather_summaries keeps taking steps while one is possible.
SpecGatherFair == GatherInit /\ [][GNext]_vars /\ WF_vars(GNext)

(***************************************************************************)
(* Properties of gather_summaries (checked under SpecGather)               *)
(***************************************************************************)
\* C1: at no time are more than MAX_CONCURRENCY summary requests in flight,
\* whatever the number of titles, the completion order and the failures.
C1_InFlightBounded == Cardinality(InFlight) <= MAX_CONCURRENCY

\* C1 witness: the pool is full and a further task is blocked on the permit.
C1_PoolFullWitness ==
    /\ Cardinality(InFlight) = MAX_CONCURRENCY
    /\ \E t \in Titles : tstate[t] = "waiting"

\* C2 as claimed: gather_summaries never fails as a whole, and on return every
\* title whose request ended with a non-200 status or with a transport
\* exception is mapped to None.
C2_FailingTitleBecomesNull ==
    /\ gpc # "raised"
    /\ gpc = "returned" =>
          \A t \in Titles : resp[t] \in {"non200", "exc"} =>
              t \in DOMAIN out /\ out[t] = None

\* C3: the mapping gather_summaries returns has exactly one entry per input
\* title, and each entry is what _fetch_summary gives for that title's
\* response: the content does not depend on the completion order.
C3_MappingIndependentOfOrder ==
    gpc = "returned" =>
        /\ DOMAIN out = Titles
        /\ \A t \in Titles : out[t] = FetchSummary(t, resp[t])

\* C3 witness: a mapping was returned whose results were collected in an order
\* other than the input order.
C3_OutOfOrderWitness ==
    /\ gpc = "returned"
    /\ ntitles >= 2
    /\ order # [i \in 1..ntitles |-> i]

(***************************************************************************)
(* Properties of the checkpointed pipeline (checked under Spec)            *)
(***************************************************************************)
\* C4: a stage called while its checkpoint file exists issues no network
\* call, leaves the file as it was, and what it returns is the content loaded
\* from the file.
C4_CheckpointHitSkipsWork ==
    (stage # "none" /\ startFile.st # "absent") =>
        /\ netCalls = 0
        /\ files[CurKey].st = startFile.st
        /\ startFile.st = "complete" => files[CurKey].data = startFile.data
        /\ spc = "ret" => ret = Load(stage, startFile.data)

\* C4 witness: fetch_summaries is about to return from an existing checkpoint.
C4_LoadedWitness ==
    stage = "summaries" /\ spc = "ret" /\ startFile.st = "complete"

\* C5 as claimed: a stage that loads the checkpoint an earlier call of it
\* wrote returns what that earlier call returned.
C5_RerunReturnsFirstOutput ==
    (stage # "none" /\ spc = "ret" /\ startFile.st = "complete" /\ firstRet[CurKey].set) =>
        ret = firstRet[CurKey].val

\* C6 as claimed: when a stage that started without a checkpoint is
\* interrupted or fails before it returns, its checkpoint file does not exist.
C6_NoArtifactAfterFailure ==
    (stage # "none" /\ startFile.st = "absent" /\ mpc \in {"fatal", "interrupted"}) =>
        files[CurKey].st = "absent"

\* the groups main reported as missing a per-group checkpoint, and the groups
\* whose loop iteration it started
SkippedGroups == {g \in Groups : \E s \in GroupStages : <<"missing", s, g>> \in printed}
VisitedGroups == {g \in Groups : <<"processing", "", g>> \in printed}

\* C7: a group for which an unselected per-group stage has no checkpoint is
\* reported and not assembled, and main still goes through every group: a run
\* that skipped a group ends by exhausting the loop, not by returning early.
C7_MissingGroupCheckpointSkipsGroupOnly ==
    /\ (mpc \in {"done", "returned"} /\ SkippedGroups # {}) =>
          /\ mpc = "done"
          /\ Range(groupList) \subseteq VisitedGroups
    /\ SkippedGroups \cap assembled = {}
    /\ mpc = "done" =>
          \A g \in Range(groupList) :
              (\E s \in GroupStages : ~Selected(s) /\ ~CheckpointExists(files[<<s, g>>]))
                  => g \in SkippedGroups

\* C7 witness: a run ended in which a group was skipped and a later group was
\* assembled.
C7_SkipThenProcessWitness ==
    /\ mpc = "done"
    /\ \E g \in SkippedGroups : \E h \in assembled : g < h

\* C8 as claimed: reporting a missing global checkpoint (subcats or films)
\* does not end the run.
C8_MissingGlobalDoesNotAbort ==
    \A s \in GlobalStages : <<"missing", s, 0>> \in printed => mpc # "returned"

\* C9: when a stage has failed with a fatal error, every checkpoint written
\* earlier, by another stage or for another group, in this or an earlier run,
\* is still there with the content it was written with.
C9_FatalKeepsEarlierCheckpoints ==
    mpc = "fatal" =>
        \A k \in Keys \ {CurKey} :
            written[k].set =>
                files[k].st = "complete" /\ files[k].data = written[k].val

\* C9 witness: resolve_qids fails for group 2 after the three per-group
\* checkpoints of group 1 were written.
C9_FatalAfterWritesWitness ==
    /\ mpc = "fatal" /\ stage = "qids" /\ CurGroup = 2
    /\ \A s \in GroupStages : written[<<s, 1>>].set

(***************************************************************************)
(* Properties of the retrying helpers (checked under SpecRetry)            *)
(***************************************************************************)
\* C10: the helper issues at most `retries` requests; a successful request is
\* the last one issued and its result is what is returned; and when `retries`
\* requests (at least one) have all failed the helper has raised the failure
\* of the last one, and it raises in no other case.
C10_RetryContract ==
    /\ Len(rlog) <= (IF retries > 0 THEN retries ELSE 0)
    /\ \A i \in 1..Len(rlog) :
          rlog[i] = "ok" =>
              i = Len(rlog) /\ rpc = "returned" /\ rret = Some(<<"data", i>>)
    /\ (rpc = "returned" /\ rlog # <<>>) => rlog[Len(rlog)] = "ok"
    /\ (retries >= 1 /\ Len(rlog) = retries /\ \A i \in 1..retries : rlog[i] # "ok") =>
          rpc = "raised" /\ rret = Some(<<rlog[retries], retries>>)
    /\ rpc = "raised" => Len(rlog) = retries /\ \A i \in 1..retries : rlog[i] # "ok"

\* C10 witness: with the default retries, three requests failed and the helper
\* raised.
C10_ExhaustedWitness ==
    rpc = "raised" /\ retries = DefaultRetries /\ Len(rlog) = DefaultRetries

(***************************************************************************)
(* Properties of the data functions (checked under SpecData)               *)
(***************************************************************************)
\* C11 as claimed: clean_dataset outputs exactly one row per distinct
\* normalized title, and the row kept for a title is the one that comes first
\* among that title's rows once the rows are sorted by year descending, title
\* ascending, null years last.
C11_KeepsFirstAfterSorting ==
    (dfun = "clean_dataset" /\ dpc = "done") =>
        LET cleaned == [i \in 1..Len(dinput) |-> CleanRow(dinput[i])]
            ordered == sort_values(cleaned)
            titles == {cleaned[i].title : i \in 1..Len(cleaned)}
            firstOf(t) == ordered[CHOOSE i \in 1..Len(ordered) :
                                     /\ ordered[i].title = t
                                     /\ \A j \in 1..(i - 1) : ordered[j].title # t]
        IN  /\ Len(doutput) = Cardinality(titles)
            /\ {doutput[i].title : i \in 1..Len(doutput)} = titles
            /\ \A i \in 1..Len(doutput) : doutput[i] = firstOf(doutput[i].title)

\* C12 as claimed: for every non-null year cell normalize_years yields a
\* value: null when the integer year is outside [1890, current_year], the
\* integer year itself when it is inside.
C12_YearRangeRule ==
    (dfun = "clean_year" /\ dinput # None /\ dpc # "call") =>
        /\ dpc = "done"
        /\ dinput[1].k \in {"num", "str"} =>
              doutput = IF MinYear <= YearInt(dinput[1]) /\ YearInt(dinput[1]) <= current_year
                        THEN Some(YearInt(dinput[1])) ELSE None

\* C13: the names of a normalized people list are in strictly ascending order
\* (so no name occurs twice), none is empty, they are the names of the input,
\* and normalizing the output again gives the output back.
C13_PeopleSortedDedupedIdempotent ==
    (dfun = "clean_people" /\ dpc = "done" /\ dinput # None) =>
        LET namesOf(s) == LET parts == Split(s, ";")
                          IN  [i \in 1..Len(parts) |-> Strip(parts[i])]
            given == Range(namesOf(dinput[1])) \ {<<>>}
            names == IF doutput = None THEN <<>> ELSE namesOf(doutput[1])
        IN  /\ \A i \in 1..Len(names) : names[i] # <<>>
            /\ \A i \in 1..Len(names) : \A j \in (i + 1)..Len(names) :
                   StrLess(names[i], names[j])
            /\ Range(names) = given
            /\ clean_people(doutput) = doutput

\* C13 witness: a list of two names given in descending order was normalized.
C13_ReorderedWitness ==
    /\ dfun = "clean_people" /\ dpc = "done"
    /\ dinput = Some(<<"b", ";", "a">>)
    /\ doutput = Some(<<"a", ";", " ", "b">>)

\* C14: a valid external id ('tt' followed by one or more digits) is left as
\* it is by standardize_imdb_ids, and a second application changes nothing.
C14_ValidImdbIdFixedPoint ==
    (dfun = "standardize_imdb" /\ dpc = "done" /\ dinput # None
        /\ Len(dinput[1]) >= 3 /\ dinput[1][1] = "t" /\ dinput[1][2] = "t"
        /\ \A i \in 3..Len(dinput[1]) : dinput[1][i] \in Digits) =>
        /\ doutput = dinput
        /\ standardize_imdb(doutput) = doutput

\* C14 witness: the id tt7 was standardized.
C14_ValidIdWitness ==
    dfun = "standardize_imdb" /\ dpc = "done" /\ dinput = Some(<<"t", "t", "7">>)

\* C15: the two-title scenario assembles to two rows, Film A first with
\* language Hindi, decade 2000, people_count 2 and has_summary true, then
\* Film B with decade null, people_count 0, has_summary false, language null.
C15_ScenarioTable ==
    (dfun = "assemble_csv" /\ dpc = "done") =>
        /\ Len(doutput) = 2
        /\ doutput[1].title = Some(FilmA)
        /\ doutput[1].language = Some(<<"H", "i", "n", "d", "i">>)
        /\ doutput[1].decade = Some(2000)
        /\ doutput[1].people_count = 2
        /\ doutput[1].has_summary
        /\ doutput[2].title = Some(FilmB)
        /\ doutput[2].language = None
        /\ doutput[2].decade = None
        /\ doutput[2].people_count = 0
        /\ ~doutput[2].has_summary

\* C15 witness: the scenario was assembled from an identifier map that lists
\* Film B first and a summaries map that holds "" for Film B.
C15_ScenarioWitness ==
    /\ dfun = "assemble_csv" /\ dpc = "done"
    /\ dinput.qid_map[1][1] = FilmB
    /\ FilmB \in DOMAIN dinput.summaries /\ dinput.summaries[FilmB] = Some(<<>>)

\* C19: query_wikidata_batch returns an entry for each identifier of the
\* rows, with the external id of the identifier's first row that has one, the
\* year of its first row whose date parses, and its person names without
\* duplicates, sorted and joined (null when there is none).
C19_MergeRule ==
    (dfun = "query_wikidata_batch" /\ dpc = "done") =>
        LET rows == dinput
            qidAt(i) == rows[i].film[Len(rows[i].film)]
            least(S) == CHOOSE x \in S : \A y \in S : x <= y
        IN  /\ DOMAIN doutput = {qidAt(i) : i \in 1..Len(rows)}
            /\ \A q \in DOMAIN doutput :
                  LET mine == {i \in 1..Len(rows) : qidAt(i) = q}
                      withId == {i \in mine : rows[i].imdb # None}
                      withYear == {i \in mine : rows[i].date # None /\ rows[i].date[1].ok}
                      names == {rows[i].personLabel[1] :
                                   i \in {j \in mine : rows[j].personLabel # None}}
                  IN  /\ doutput[q].imdb_id =
                             IF withId = {} THEN None ELSE rows[least(withId)].imdb
                      /\ doutput[q].year =
                             IF withYear = {} THEN None
                             ELSE Some(rows[least(withYear)].date[1].year)
                      /\ doutput[q].people =
                             IF names = {} THEN None
                             ELSE Some(Join(<<";", " ">>, Sorted(names)))

\* C19 witness: the first row of Q1 has a malformed date and the person Y, the
\* second has an external id, a date that parses and the person X.
C19_MultiRowWitness ==
    /\ dfun = "query_wikidata_batch" /\ dpc = "done"
    /\ Len(dinput) = 2
    /\ dinput[1].date # None /\ ~dinput[1].date[1].ok
    /\ "Q1" \in DOMAIN doutput
    /\ doutput["Q1"].imdb_id = Some(<<"t", "t", "2">>)
    /\ doutput["Q1"].year = Some(2002)
    /\ doutput["Q1"].people = Some(<<"X", ";", " ", "Y">>)

(***************************************************************************)
(* Further properties of gather_summaries and of the retrying helpers      *)
(***************************************************************************)
\* C16: the permits held by tasks plus the permits free are MAX_CONCURRENCY
\* in every state, a request is in flight only under a permit, and a task
\* that has finished (returned, raised or was cancelled) holds none: the
\* permit is given back on every path, also when the request raises.
C16_PermitsConserved ==
    /\ Cardinality(Holding) + sem = MAX_CONCURRENCY
    /\ InFlight \subseteq Holding
    /\ \A t \in Titles : tstate[t] \in {"done", "failed", "cancelled"} => t \notin Holding
    /\ sem >= 0

\* C16 witness: a task whose request raised has finished while another task
\* holds a permit.
C16_ReleasedOnErrorWitness ==
    /\ \E t \in Titles : tstate[t] = "failed"
    /\ \E t \in Titles : tstate[t] = "inflight"

\* C17 (under SpecRetry): the k-th pause lasts backoff * k, a pause follows
\* every failed attempt but the last one, and none precedes the raise.
C17_LinearBackoff ==
    /\ \A k \in 1..Len(slept) : slept[k] = Backoff(rfun) * k
    /\ \A k \in 1..Len(slept) : rlog[k] # "ok"
    /\ rpc = "try" => Len(slept) = Len(rlog)
    /\ rpc = "sleep" => Len(slept) = Len(rlog) - 1
    /\ (rpc \in {"returned", "raised"} /\ rlog # <<>>) => Len(slept) = Len(rlog) - 1
    /\ (rpc = "raised" /\ retries = DefaultRetries) =>
          slept = IF rfun = "safe_request" THEN <<3, 6>> ELSE <<4, 8>>

\* C17 witness: _safe_request raised after three failures and two pauses, of
\* 1.5 s and 3.0 s.
C17_TwoPausesWitness ==
    rpc = "raised" /\ rfun = "safe_request" /\ Len(rlog) = 3 /\ slept = <<3, 6>>

\* C18 as claimed (under SpecGatherFair): every task is created before a
\* result is collected, and gather_summaries eventually returns with a result
\* collected for every title.
C18_EventuallyAllCollected ==
    /\ [](order # <<>> => \A t \in Titles : tstate[t] # "none")
    /\ <>(gpc = "returned" /\ DOMAIN out = Titles)

\* What does hold under SpecGatherFair: when no request raises, every task
\* that waits on the permit gets it and gather_summaries returns with a result
\* for every title.
C18_TerminatesWhenNoRequestRaises ==
    (\A t \in Titles : resp[t] # "exc") =>
        /\ <>(gpc = "returned" /\ DOMAIN out = Titles)
        /\ \A t \in 1..NTitles :
              []((t \in Titles /\ tstate[t] = "waiting")
                    => <>(t \in Titles /\ tstate[t] = "inflight"))

(***************************************************************************)
(* Properties of fetch_category_members (checked under SpecMembers)        *)
(***************************************************************************)
\* C20: the first request carries no continuation token and each later one
\* the token of the response before it; no request follows a response without
\* a token; what is returned is the members of all pages in request order;
\* and when a request fails nothing is returned.
C20_FollowsContinuation ==
    LET n == Len(catpages)
        RECURSIVE concat(_)
        concat(p) == IF p = 0 THEN <<>> ELSE concat(p - 1) \o catpages[p]
    IN  /\ Len(requests) <= n
        /\ \A k \in 1..Len(requests) :
               requests[k] = IF k = 1 THEN <<>> ELSE <<"page", k>>
        /\ cpc = "returned" => Len(requests) = n /\ cmret = Some(concat(n))
        /\ cpc # "returned" => cmret = None
        /\ cpc = "request" => members = concat(Len(requests))

\* C20 witness: a list was returned that was put together from three pages,
\* the first and the last of them not empty.
C20_ThreePagesWitness ==
    /\ cpc = "returned" /\ Len(catpages) = 3
    /\ catpages[1] # <<>> /\ catpages[3] # <<>>

(***************************************************************************)
(* Order and idempotence of clean_dataset (checked under SpecData)         *)
(***************************************************************************)
\* C22, the order of the output alone: the rows clean_dataset returns are in
\* descending order of year, the rows without a year come after every row with
\* one, and rows of equal year are in ascending order of title.
C22_OutputSorted ==
    (dfun = "clean_dataset" /\ dpc = "done") =>
        \A i, j \in 1..Len(doutput) :
            i < j =>
                LET a == doutput[i]
                    b == doutput[j]
                IN  /\ a.year = None => b.year = None
                    /\ (a.year # None /\ b.year # None) => a.year[1] >= b.year[1]
                    /\ a.year = b.year =>
                           (a.title = b.title \/ StrLess(a.title[1], b.title[1]))

\* C22 as claimed: the output of clean_dataset is in that order, and the
\* order of its rows (the sequence of their titles) is the same for every
\* order of the input rows.
C22_SortedWhateverTheInputOrder ==
    (dfun = "clean_dataset" /\ dpc = "done") =>
        /\ C22_OutputSorted
        /\ \A p \in [1..Len(dinput) -> 1..Len(dinput)] :
               (\A i, j \in 1..Len(dinput) : p[i] = p[j] => i = j)
                   => LET other == clean_dataset([i \in 1..Len(dinput) |-> dinput[p[i]]])
                      IN  [i \in 1..Len(other) |-> other[i].title]
                              = [i \in 1..Len(doutput) |-> doutput[i].title]

\* C25 as claimed: clean_dataset applied to its own output (the years it
\* returned being numeric cells again) returns the same rows in the same order.
C25_CleanDatasetIdempotent ==
    (dfun = "clean_dataset" /\ dpc = "done") =>
        LET again == [i \in 1..Len(doutput) |->
                         [doutput[i] EXCEPT !.year =
                             IF @ = None THEN None
                             ELSE Some([k |-> "num", tenths |-> 10 * @[1]])]]
        IN  /\ ~clean_dataset_raises(again)
            /\ clean_dataset(again) = doutput

\* C25, what holds: the second application changes nothing but the summary
\* cells, and changes no summary cell of a table that had no blank summary.
C25_IdempotentButForBlankSummaries ==
    (dfun = "clean_dataset" /\ dpc = "done") =>
        LET again == [i \in 1..Len(doutput) |->
                         [doutput[i] EXCEPT !.year =
                             IF @ = None THEN None
                             ELSE Some([k |-> "num", tenths |-> 10 * @[1]])]]
            second == clean_dataset(again)
        IN  /\ ~clean_dataset_raises(again)
            /\ Len(second) = Len(doutput)
            /\ \A i \in 1..Len(second) :
                   /\ [second[i] EXCEPT !.summary = None]
                          = [doutput[i] EXCEPT !.summary = None]
                   /\ doutput[i].summary # Some(<<>>) => second[i] = doutput[i]

(***************************************************************************)
(* Properties of resolve_qids, chunked and the retry helpers               *)
(***************************************************************************)
\* C21: without a checkpoint resolve_qids returns the map whose keys are
\* exactly the input titles that have an identifier, each mapped to its
\* identifier (a title without one is absent), and it returns the same map for
\* every order in which the same titles are given.
C21_ExactlyTitlesWithIdentifier ==
    (dfun = "resolve_qids" /\ dpc = "done") =>
        LET titles == dinput.titles
        IN  /\ DOMAIN doutput = {t \in Range(titles) : QidOf(t) # None}
            /\ \A t \in DOMAIN doutput : doutput[t] = QidOf(t)[1]
            /\ \A p \in [1..Len(titles) -> 1..Len(titles)] :
                   (\A i, j \in 1..Len(titles) : p[i] = p[j] => i = j)
                       => resolve_qids([i \in 1..Len(titles) |-> titles[p[i]]]) = doutput

\* C21 witness: three titles given out of order, two of them without an
\* identifier; the map has the third only.
C21_UnsortedWitness ==
    /\ dfun = "resolve_qids" /\ dpc = "done"
    /\ dinput.titles = <<23, 11, 13>>
    /\ DOMAIN doutput = {11} /\ doutput[11] = 111
    /\ files[Key("qids", dinput.group)] = Complete(doutput)

\* C23: for a size of at least 1 the batches of chunked, put end to end in
\* order, are the input (so each element is in exactly one batch); no batch
\* is empty, none is longer than size, and every batch but the last has
\* exactly size elements.  resolve_qids asks for 50, fetch_metadata for 200.
C23_BatchesPartitionTheInput ==
    /\ QidBatchSize = 50 /\ MetaBatchSize = 200
    /\ (dfun = "chunked" /\ dpc = "done") =>
           LET RECURSIVE joined(_)
               joined(i) == IF i = 0 THEN <<>> ELSE joined(i - 1) \o doutput[i]
           IN  /\ joined(Len(doutput)) = dinput.it
               /\ \A i \in 1..Len(doutput) :
                      /\ 1 <= Len(doutput[i]) /\ Len(doutput[i]) <= dinput.size
                      /\ i < Len(doutput) => Len(doutput[i]) = dinput.size

\* C23 witness: four elements in batches of three give a full batch and a
\* last batch of one.
C23_ShortLastBatchWitness ==
    /\ dfun = "chunked" /\ dpc = "done"
    /\ Len(dinput.it) = 4 /\ dinput.size = 3
    /\ Len(doutput) = 2 /\ Len(doutput[1]) = 3 /\ Len(doutput[2]) = 1

\* C24 (checked under SpecRetry): a helper called with retries <= 0 issues no
\* request and never raises; it returns, and what it returns is None.
C24_NoRequestReturnsNone ==
    retries <= 0 =>
        /\ rlog = <<>>
        /\ rpc \in {"off", "try", "returned"}
        /\ rpc = "returned" => rret = None

\* C24 witness: a helper called with retries = 0 has returned None without a
\* request.
C24_ZeroRetriesWitness ==
    rpc = "returned" /\ retries = 0 /\ rlog = <<>> /\ rret = None

=============================================================================
